---- MODULE Spec2Model ----
(***************************************************************************)
(* Model of the grudge list's undo/redo history (src/src/GrudgeContext.js) *)
(* together with the provider and the buttons that dispatch into it.       *)
(*                                                                         *)
(* JavaScript values are encoded as follows.                               *)
(*   - an array of grudges is [kind |-> "array", items |-> <<...>>], the   *)
(*     value undefined is [kind |-> "undefined", items |-> <<>>];          *)
(*   - a grudge is [id, person, reason, forgiven]; forgiven is one of      *)
(*     "true", "false", "undefined" (a record built without the field);    *)
(*   - the value returned by a call of id() (uuid/v4) is a parameter of    *)
(*     the reducers, chosen by the step among the ids never issued.        *)
(***************************************************************************)
EXTENDS Integers, Sequences, FiniteSets, TLC

VARIABLES
    state,        \* the useReducer state: {past, present, future}
    queue,        \* actions dispatched and not yet reduced, oldest first
    rendered,     \* what the last render put on screen
    reducing,     \* React is working through the queue; the next render is due
    crashed,      \* a render threw: the tree is unmounted
    usedIds,      \* ids issued so far by id()
    reducerArgs,  \* action types the base reducer was invoked with in the last undoReducer call
    log,          \* the last two reductions, most recent first: [before, action, uuid]
    plain,        \* the list of the plain useReducer(reducer, initialState), fed the same actions
    undoFree,     \* no UNDO or REDO was reduced yet: plain is still being fed
    fed,          \* the number of actions plain was fed
    inline,       \* the History of the hand-written past/present/future reducer, fed the same actions
    inlineFed,    \* only GRUDGE_ADD, GRUDGE_FORGIVE and UNDO on a non-empty past were reduced yet
    staleReduced  \* an UNDO was reduced on an empty past, or a REDO on an empty future

vars == <<state, queue, rendered, reducing, crashed, usedIds, reducerArgs, log, plain, undoFree,
          fed, inline, inlineFed, staleReduced>>

----------------------------------------------------------------------------
(* Bounds *)

MaxQueue == 2

MaxTimeline == 3

NumIds == 4

----------------------------------------------------------------------------
(* Values *)

GRUDGE_ADD == "GRUDGE_ADD"

GRUDGE_FORGIVE == "GRUDGE_FORGIVE"

UNDO == "UNDO"

REDO == "REDO"

Undefined == [kind |-> "undefined", items |-> <<>>]

Array(items) == [kind |-> "array", items |-> items]

Ids == 1..NumIds

\* what the user typed into the form: {person, reason}
Payloads == { [person |-> "Al", reason |-> "parked badly"] }

\* the dummy data, cut down to one record; its id came from id() at load time
initialState ==
    Array(<< [id |-> 1, person |-> "Bo", reason |-> "Parked too close to me",
              forgiven |-> "false"] >>)

InitialIds == {initialState.items[i].id : i \in 1..Len(initialState.items)}

\* JavaScript's ! on a boolean-or-undefined field
Not(v) == IF v = "true" THEN "false" ELSE "true"

\* const [first, ...rest] = array
First(s) == IF s = <<>> THEN Undefined ELSE Head(s)

Rest(s) == IF s = <<>> THEN <<>> ELSE Tail(s)

----------------------------------------------------------------------------
(* The reducers *)

\* reducer that puts a new grudge at the end of the list
reducer_addAppends(st, action, uuid) ==
    LET s == IF st = Undefined THEN initialState ELSE st
    IN  IF action.type = GRUDGE_ADD
        THEN Array(s.items \o << [id |-> uuid,
                                  person |-> action.payload.person,
                                  reason |-> action.payload.reason,
                                  forgiven |-> "undefined"] >>)
        ELSE IF action.type = GRUDGE_FORGIVE
        THEN Array([i \in 1..Len(s.items) |->
                       IF s.items[i].id = action.payload.id
                       THEN [s.items[i] EXCEPT !.forgiven = Not(@)]
                       ELSE s.items[i]])
        ELSE s

\* reducer whose GRUDGE_FORGIVE removes the grudge instead of toggling it
reducer_forgiveRemoves(st, action, uuid) ==
    LET s == IF st = Undefined THEN initialState ELSE st
    IN  IF action.type = GRUDGE_ADD
        THEN Array(<< [id |-> uuid,
                       person |-> action.payload.person,
                       reason |-> action.payload.reason,
                       forgiven |-> "undefined"] >> \o s.items)
        ELSE IF action.type = GRUDGE_FORGIVE
        THEN Array(SelectSeq(s.items, LAMBDA g : g.id # action.payload.id))
        ELSE s

reducer(st, action, uuid) ==
    LET s == IF st = Undefined THEN initialState ELSE st   \* state = initialState
    IN  IF action.type = GRUDGE_ADD
        THEN Array(<< [id |-> uuid,
                       person |-> action.payload.person,
                       reason |-> action.payload.reason,
                       forgiven |-> "undefined"] >> \o s.items)
        ELSE IF action.type = GRUDGE_FORGIVE
        THEN Array([i \in 1..Len(s.items) |->
                       IF s.items[i].id = action.payload.id
                       THEN [s.items[i] EXCEPT !.forgiven = Not(@)]
                       ELSE s.items[i]])
        ELSE s

\* the list reducer used on its own, before the history was added
plainReducer(st, action, uuid) ==
    LET s == IF st = Undefined THEN Array(<<>>) ELSE st   \* state = []
    IN  IF action.type = GRUDGE_ADD
        THEN Array(<< [id |-> uuid,
                       person |-> action.payload.person,
                       reason |-> action.payload.reason,
                       forgiven |-> "undefined"] >> \o s.items)
        ELSE IF action.type = GRUDGE_FORGIVE
        THEN Array([i \in 1..Len(s.items) |->
                       IF s.items[i].id = action.payload.id
                       THEN [s.items[i] EXCEPT !.forgiven = Not(@)]
                       ELSE s.items[i]])
        ELSE s

\* undoReducer with the redoable branch kept on a new edit
undoReducer_keepsFuture(st, action, uuid) ==
    LET newPresent == reducer(st.present, action, uuid)
    IN  IF action.type = UNDO
        THEN [past |-> Rest(st.past),
              present |-> First(st.past),
              future |-> <<st.present>> \o st.future]
        ELSE IF action.type = REDO
        THEN [past |-> <<st.present>> \o st.past,
              present |-> First(st.future),
              future |-> Rest(st.future)]
        ELSE [past |-> <<st.present>> \o st.past,
              present |-> newPresent,
              future |-> st.future]

\* undoReducer whose UNDO forgets the snapshots already in future
undoReducer_undoDropsFuture(st, action, uuid) ==
    LET newPresent == reducer(st.present, action, uuid)
    IN  IF action.type = UNDO
        THEN [past |-> Rest(st.past),
              present |-> First(st.past),
              future |-> <<st.present>>]
        ELSE IF action.type = REDO
        THEN [past |-> <<st.present>> \o st.past,
              present |-> First(st.future),
              future |-> Rest(st.future)]
        ELSE [past |-> <<st.present>> \o st.past,
              present |-> newPresent,
              future |-> <<>>]

\* undoReducer whose REDO does not push the old present onto past
undoReducer_redoSkipsPush(st, action, uuid) ==
    LET newPresent == reducer(st.present, action, uuid)
    IN  IF action.type = UNDO
        THEN [past |-> Rest(st.past),
              present |-> First(st.past),
              future |-> <<st.present>> \o st.future]
        ELSE IF action.type = REDO
        THEN [past |-> st.past,
              present |-> First(st.future),
              future |-> Rest(st.future)]
        ELSE [past |-> <<st.present>> \o st.past,
              present |-> newPresent,
              future |-> <<>>]

\* undoReducer over a reducer that edits the present list in place: the
\* snapshot pushed onto past is the edited one
undoReducer_editsInPlace(st, action, uuid) ==
    LET newPresent == reducer(st.present, action, uuid)
    IN  IF action.type = UNDO
        THEN [past |-> Rest(st.past),
              present |-> First(st.past),
              future |-> <<st.present>> \o st.future]
        ELSE IF action.type = REDO
        THEN [past |-> <<st.present>> \o st.past,
              present |-> First(st.future),
              future |-> Rest(st.future)]
        ELSE [past |-> <<newPresent>> \o st.past,
              present |-> newPresent,
              future |-> <<>>]

\* undoReducer whose UNDO steps over the newest entry of past
undoReducer_undoSkipsOne(st, action, uuid) ==
    LET newPresent == reducer(st.present, action, uuid)
    IN  IF action.type = UNDO
        THEN [past |-> Rest(Rest(st.past)),
              present |-> First(Rest(st.past)),
              future |-> <<st.present>> \o st.future]
        ELSE IF action.type = REDO
        THEN [past |-> <<st.present>> \o st.past,
              present |-> First(st.future),
              future |-> Rest(st.future)]
        ELSE [past |-> <<st.present>> \o st.past,
              present |-> newPresent,
              future |-> <<>>]

undoReducer(st, action, uuid) ==
    LET newPresent == reducer(st.present, action, uuid)
    IN  IF action.type = UNDO
        THEN [past |-> Rest(st.past),
              present |-> First(st.past),
              future |-> <<st.present>> \o st.future]
        ELSE IF action.type = REDO
        THEN [past |-> <<st.present>> \o st.past,
              present |-> First(st.future),
              future |-> Rest(st.future)]
        ELSE [past |-> <<st.present>> \o st.past,
              present |-> newPresent,
              future |-> <<>>]

\* the action types undoReducer hands to the base reducer while it reduces
\* action: the call comes first, before the type is looked at
reducerCalls(action) == {action.type}

\* the hand-written reducer's initial History
defaultState == [past |-> <<>>, present |-> initialState, future |-> <<>>]

\* the hand-written history reducer; what it is compared on never hands it
\* an undefined History or present
inlineReducer(st, action, uuid) ==
    IF action.type = GRUDGE_ADD
    THEN LET newPresent == Array(<< [id |-> uuid,
                                     person |-> action.payload.person,
                                     reason |-> action.payload.reason,
                                     forgiven |-> "undefined"] >> \o st.present.items)
         IN  [past |-> <<st.present>> \o st.past,
              present |-> newPresent,
              future |-> <<>>]
    ELSE IF action.type = GRUDGE_FORGIVE
    THEN LET newPresent == Array([i \in 1..Len(st.present.items) |->
                                     IF st.present.items[i].id = action.payload.id
                                     THEN [st.present.items[i] EXCEPT !.forgiven = Not(@)]
                                     ELSE st.present.items[i]])
         IN  [past |-> <<st.present>> \o st.past,
              present |-> newPresent,
              future |-> <<>>]
    ELSE IF action.type = UNDO
    THEN [past |-> Rest(st.past),
          present |-> First(st.past),
          future |-> <<st.present>> \o st.future]
    ELSE st

\* the history started on an empty list instead of initialState
undoState_emptyPresent == [past |-> <<>>, present |-> Array(<<>>), future |-> <<>>]

undoState == [past |-> <<>>, present |-> initialState, future |-> <<>>]

----------------------------------------------------------------------------
(* The provider and the screen *)

\* the context value with isPast and isFuture computed from the wrong lists
ContextValue_flagsSwapped(st) ==
    [grudges |-> st.present,
     isPast |-> st.future # <<>>,
     isFuture |-> st.past # <<>>]

\* the context value GrudgeProvider computes from the state
ContextValue(st) ==
    [grudges |-> st.present,
     isPast |-> st.past # <<>>,
     isFuture |-> st.future # <<>>]

\* <button disabled={!isPast} onClick={undo}>
UndoEnabled == rendered.isPast

\* <button disabled={!isFuture} onClick={redo}>
RedoEnabled == rendered.isFuture

\* ids of the grudges on screen, each with a checkbox
ShownIds == {rendered.grudges.items[i].id : i \in 1..Len(rendered.grudges.items)}

\* bound: the GRUDGE_ADD actions waiting for an id of the pool
PendingAdds == Cardinality({i \in 1..Len(queue) : queue[i].type = GRUDGE_ADD})

\* an event handler runs before React starts on the queue
Handling ==
    /\ ~crashed
    /\ ~reducing
    /\ Len(queue) < MaxQueue

\* bound: the history may still grow by one more entry
Room == Len(state.past) + Len(state.future) + Len(queue) < MaxTimeline

dispatch(action) ==
    /\ queue' = Append(queue, action)
    /\ UNCHANGED <<state, rendered, reducing, crashed, usedIds, reducerArgs, log, plain, undoFree,
                   fed, inline, inlineFed, staleReduced>>

addGrudge ==
    /\ Handling
    /\ Room
    /\ Cardinality(Ids \ usedIds) > PendingAdds
    /\ \E p \in Payloads :
          dispatch([type |-> GRUDGE_ADD, payload |-> p])

toggleForgiveness ==
    /\ Handling
    /\ Room
    /\ \E i \in ShownIds :
          dispatch([type |-> GRUDGE_FORGIVE, payload |-> [id |-> i]])

undo ==
    /\ Handling
    /\ queue = <<>> \/ Room
    /\ UndoEnabled
    /\ dispatch([type |-> UNDO])

redo ==
    /\ Handling
    /\ queue = <<>> \/ Room
    /\ RedoEnabled
    /\ dispatch([type |-> REDO])

\* an UNDO with nothing to undo, or a REDO with nothing to redo
IsStale(st, action) ==
    \/ action.type = UNDO /\ st.past = <<>>
    \/ action.type = REDO /\ st.future = <<>>

\* the actions the hand-written reducer is compared on: it has no REDO
\* branch, and UNDO is taken with a non-empty past only
InlineHandles(st, action) ==
    \/ action.type \in {GRUDGE_ADD, GRUDGE_FORGIVE}
    \/ action.type = UNDO /\ st.past # <<>>

\* a handler that builds the next list from the grudges it saw at render
\* time, as the useState provider did: setGrudges({[grudge.id]: grudge, ...grudges})
reducerInput_stale == [state EXCEPT !.present = rendered.grudges]

\* the state useReducer hands to the reducer: the one the previous update
\* produced, not the one the handler saw when it dispatched
reducerInput == state

\* React reduces the oldest pending action
Reduce ==
    /\ queue # <<>>
    /\ LET action == Head(queue)
       IN  \E uuid \in (IF action.type = GRUDGE_ADD THEN Ids \ usedIds ELSE {0}) :
              /\ state' = undoReducer(reducerInput, action, uuid)
              /\ IF undoFree /\ action.type \notin {UNDO, REDO}
                 THEN plain' = plainReducer(plain, action, uuid) /\ fed' = fed + 1
                      /\ UNCHANGED undoFree
                 ELSE plain' = initialState /\ fed' = 0 /\ undoFree' = FALSE
              /\ IF inlineFed /\ InlineHandles(state, action)
                 THEN inline' = inlineReducer(inline, action, uuid) /\ UNCHANGED inlineFed
                 ELSE inline' = defaultState /\ inlineFed' = FALSE
              /\ staleReduced' = (staleReduced \/ IsStale(state, action))
              /\ reducerArgs' = reducerCalls(action)
              /\ usedIds' = IF action.type = GRUDGE_ADD THEN usedIds \cup {uuid} ELSE usedIds
              /\ log' = <<[before |-> state, action |-> action, uuid |-> uuid]>>
                            \o (IF log = <<>> THEN <<>> ELSE <<log[1]>>)
    /\ queue' = Tail(queue)
    /\ reducing' = TRUE
    /\ UNCHANGED <<rendered, crashed>>

\* GrudgeProvider, Application and Grudges render once the queue is reduced;
\* Grudges reads grudges.length, which throws on undefined
Render ==
    /\ reducing
    /\ queue = <<>>
    /\ reducing' = FALSE
    /\ IF state.present = Undefined
       THEN crashed' = TRUE /\ UNCHANGED rendered
       ELSE rendered' = ContextValue(state) /\ UNCHANGED crashed
    /\ UNCHANGED <<state, queue, usedIds, reducerArgs, log, plain, undoFree,
                   fed, inline, inlineFed, staleReduced>>

Init ==
    /\ state = undoState
    /\ queue = <<>>
    /\ rendered = ContextValue(undoState)
    /\ reducing = FALSE
    /\ crashed = FALSE
    /\ usedIds = InitialIds
    /\ reducerArgs = {}
    /\ log = <<>>
    /\ plain = initialState
    /\ undoFree = TRUE
    /\ fed = 0
    /\ inline = defaultState
    /\ inlineFed = TRUE
    /\ staleReduced = FALSE

Next ==
    \/ addGrudge
    \/ toggleForgiveness
    \/ undo
    \/ redo
    \/ Reduce
    \/ Render

Spec == Init /\ [][Next]_vars

----------------------------------------------------------------------------
(* Reading the log *)

\* the last reduction was of an action of one of these types
LastWas(types) == log # <<>> /\ log[1].action.type \in types

\* the last two reductions were of actions of these types, in this order
LastTwoWere(first, second) ==
    /\ Len(log) = 2
    /\ log[2].action.type \in first
    /\ log[1].action.type \in second

Edits == {GRUDGE_ADD, GRUDGE_FORGIVE}

\* a list back to front
RECURSIVE Reverse(_)
Reverse(seq) == IF seq = <<>> THEN <<>> ELSE Reverse(Tail(seq)) \o <<Head(seq)>>

\* the snapshots of a History in the order they were made
Timeline(st) == Reverse(st.past) \o <<st.present>> \o st.future

\* the History after n more actions of the given type (UNDO or REDO)
RECURSIVE Repeat(_, _, _)
Repeat(st, type, n) ==
    IF n = 0 THEN st ELSE Repeat(undoReducer(st, [type |-> type], 0), type, n - 1)

\* the snapshots held in a list
Range(seq) == {seq[i] : i \in 1..Len(seq)}

\* the values id() could have returned in the last reduction
IdOutcomes ==
    IF log[1].action.type = GRUDGE_ADD
    THEN Ids \ (usedIds \ {log[1].uuid})
    ELSE {log[1].uuid}

\* the ids of the records of a snapshot (none for undefined)
IdsOf(snapshot) == {snapshot.items[i].id : i \in 1..Len(snapshot.items)}

----------------------------------------------------------------------------
(* Claims *)

C2_UndoOnEmptyPastIsNoOp ==
    LastWas({UNDO}) /\ log[1].before.past = <<>> => state = log[1].before

\* C3: REDO on a History whose future is empty returns the History unchanged.
C3_RedoOnEmptyFutureIsNoOp ==
    LastWas({REDO}) /\ log[1].before.future = <<>> => state = log[1].before

C5_RedoMovesOneSnapshot ==
    LastWas({REDO}) /\ log[1].before.future # <<>> =>
        state = [past |-> <<log[1].before.present>> \o log[1].before.past,
                 present |-> Head(log[1].before.future),
                 future |-> Tail(log[1].before.future)]

\* a redo was reduced with further entries in both future and past
C5_Witness ==
    /\ LastWas({REDO})
    /\ Len(log[1].before.future) >= 2
    /\ log[1].before.past # <<>>

\* C6: UNDO on a History with non-empty past, immediately followed by REDO,
\* gives back the same present, past and future.
C6_UndoThenRedoRestores ==
    LastTwoWere({UNDO}, {REDO}) /\ log[2].before.past # <<>> =>
        state = log[2].before

\* an undo and then a redo were reduced, away from both ends of the timeline
C6_Witness ==
    /\ LastTwoWere({UNDO}, {REDO})
    /\ Len(log[2].before.past) >= 2
    /\ log[2].before.future # <<>>
    /\ log[1].before # log[2].before

\* C7: REDO right after an action that is neither UNDO nor REDO changes nothing.
C7_RedoAfterApplyIsNoOp ==
    LastTwoWere(Edits, {REDO}) => state = log[1].before

\* C8: the base reducer is never invoked with an action of type UNDO or REDO.
C8_ReducerNeverSeesUndoRedo ==
    reducerArgs \cap {UNDO, REDO} = {}

\* C9: an action the base reducer cannot handle (GRUDGE_FORGIVE for an id that
\* is in no record of present) leaves past, present and future as they were.
C9_UnhandledActionLeavesHistory ==
    /\ LastWas({GRUDGE_FORGIVE})
    /\ log[1].action.payload.id \notin IdsOf(log[1].before.present)
    => state = log[1].before

\* the enabled-check of the last reduced UNDO or REDO was stale: the button was
\* enabled on screen, but past (future) was empty when the action was reduced
StaleUndoRedo ==
    /\ reducing
    /\ \/ LastWas({UNDO}) /\ rendered.isPast /\ log[1].before.past = <<>>
       \/ LastWas({REDO}) /\ rendered.isFuture /\ log[1].before.future = <<>>

\* C10: an undo or redo reduced after a stale enabled-check is a no-op and
\* leaves present a valid snapshot.
C10_StaleUndoRedoIsSafe ==
    StaleUndoRedo => state = log[1].before /\ state.present.kind = "array"

\* C11: on every rendered screen isPast is true exactly when past is
\* non-empty and isFuture exactly when future is non-empty, and the Undo
\* (Redo) button is enabled exactly when isPast (isFuture) holds.
C11_FlagsMatchHistory ==
    ~reducing /\ ~crashed =>
        /\ rendered.isPast <=> state.past # <<>>
        /\ rendered.isFuture <=> state.future # <<>>
        /\ UndoEnabled <=> state.past # <<>>
        /\ RedoEnabled <=> state.future # <<>>

\* a screen rendered with something to undo and nothing to redo
C11_Witness ==
    /\ ~reducing /\ ~crashed
    /\ log # <<>>
    /\ state.past # <<>> /\ state.future = <<>>
    /\ UndoEnabled /\ ~RedoEnabled

C13_UndoAfterApplyRestores ==
    LastTwoWere(Edits, {UNDO}) =>
        state = [past |-> log[2].before.past,
                 present |-> log[2].before.present,
                 future |-> <<log[1].before.present>>]

\* an edit made with a redoable branch pending was undone
C13_Witness ==
    /\ LastTwoWere(Edits, {UNDO})
    /\ log[2].before.future # <<>>
    /\ log[2].before.past # <<>>

\* C14: GRUDGE_FORGIVE with the id of a record of present, dispatched twice in
\* a row, leaves that record's forgiven flag at its original value.
C14_DoubleToggleRestoresFlag ==
    /\ LastTwoWere({GRUDGE_FORGIVE}, {GRUDGE_FORGIVE})
    /\ log[2].action.payload.id = log[1].action.payload.id
    /\ log[2].before.present.kind = "array"
    => \A i \in 1..Len(log[2].before.present.items) :
          log[2].before.present.items[i].id = log[2].action.payload.id =>
              state.present.items[i].forgiven = log[2].before.present.items[i].forgiven

\* C15: no operation changes a stored snapshot: every snapshot held in past or
\* future after a reduction was held in past, present or future before it,
\* with the same records.
C15_StoredSnapshotsUntouched ==
    log # <<>> =>
        Range(state.past) \cup Range(state.future) \subseteq
            Range(log[1].before.past) \cup Range(log[1].before.future)
                \cup {log[1].before.present}

\* a toggle changed a record of present while the old list is kept in past,
\* next to older snapshots
C15_Witness ==
    /\ LastWas({GRUDGE_FORGIVE})
    /\ state.present # log[1].before.present
    /\ Len(state.past) >= 2
    /\ state.past[1] = log[1].before.present

\* C16: the History after a reduction is a function of the History before it
\* and the action alone, ids of records included.
C16_ReductionDeterministic ==
    log # <<>> =>
        \A u \in IdOutcomes :
            undoReducer(log[1].before, log[1].action, u) = state

\* C17: the History is created as {past: [], present: initialState, future: []}
\* and is that until the first reduction: isPast and isFuture are false and
\* both buttons are disabled.
C17_InitialHistory ==
    log = <<>> =>
        /\ state = [past |-> <<>>, present |-> initialState, future |-> <<>>]
        /\ ~rendered.isPast /\ ~rendered.isFuture
        /\ ~UndoEnabled /\ ~RedoEnabled
        /\ rendered.grudges = initialState

\* the first screen is up and a handler has dispatched, nothing reduced yet
C17_Witness ==
    /\ log = <<>>
    /\ ~reducing
    /\ queue # <<>>

\* C18: GRUDGE_ADD on a list yields that list with exactly one record put in
\* front, carrying the dispatched person and reason and an id no stored
\* record has; the records already there follow unchanged, in order.
C18_AddPrependsOneRecord ==
    LastWas({GRUDGE_ADD}) /\ log[1].before.present.kind = "array" =>
        LET old == log[1].before.present.items
            new == state.present.items
        IN  /\ state.present.kind = "array"
            /\ Len(new) = Len(old) + 1
            /\ Tail(new) = old
            /\ new[1].person = log[1].action.payload.person
            /\ new[1].reason = log[1].action.payload.reason
            /\ new[1].id = log[1].uuid
            /\ \A snapshot \in Range(log[1].before.past) \cup Range(log[1].before.future)
                                \cup {log[1].before.present} :
                   new[1].id \notin IdsOf(snapshot)

\* a grudge was added to a list of two or more
C18_Witness ==
    /\ LastWas({GRUDGE_ADD})
    /\ log[1].before.present.kind = "array"
    /\ Len(log[1].before.present.items) >= 2

\* C19: GRUDGE_FORGIVE with id i on a list keeps the number and order of the
\* records and their id, person and reason; records with another id are
\* unchanged, and only the forgiven field of those with id i changes.
C19_ForgiveChangesOnlyTheFlag ==
    LastWas({GRUDGE_FORGIVE}) /\ log[1].before.present.kind = "array" =>
        LET old == log[1].before.present.items
            new == state.present.items
        IN  /\ state.present.kind = "array"
            /\ Len(new) = Len(old)
            /\ \A i \in 1..Len(old) :
                   /\ new[i].id = old[i].id
                   /\ new[i].person = old[i].person
                   /\ new[i].reason = old[i].reason
                   /\ old[i].id # log[1].action.payload.id => new[i] = old[i]
                   /\ old[i].id = log[1].action.payload.id =>
                          new[i].forgiven # old[i].forgiven

\* a grudge of a list of two or more was toggled
C19_Witness ==
    /\ LastWas({GRUDGE_FORGIVE})
    /\ log[1].before.present.kind = "array"
    /\ Len(log[1].before.present.items) >= 2
    /\ log[1].action.payload.id \in IdsOf(log[1].before.present)

C21_PresentDefinedWithoutStaleUndo ==
    ~staleReduced =>
        /\ state.present.kind = "array"
        /\ \A snapshot \in Range(state.past) \cup Range(state.future) :
               snapshot.kind = "array"
        /\ ~crashed
        /\ rendered.grudges.kind = "array"

\* undo and redo were used, each with something to undo or redo, and the
\* list was rendered afterwards
C21_Witness ==
    /\ ~staleReduced
    /\ LastTwoWere({UNDO}, {REDO})
    /\ ~reducing
    /\ rendered.grudges = state.present

\* C22: UNDO on a non-empty past and REDO on a non-empty future leave the
\* sequence reverse(past), present, future as it was; present moves by one
\* place in it, so |past| + |future| is unchanged.
C22_UndoRedoPreserveTimeline ==
    /\ LastWas({UNDO}) /\ log[1].before.past # <<>> =>
          /\ Timeline(state) = Timeline(log[1].before)
          /\ Len(state.past) = Len(log[1].before.past) - 1
          /\ Len(state.past) + Len(state.future)
                = Len(log[1].before.past) + Len(log[1].before.future)
    /\ LastWas({REDO}) /\ log[1].before.future # <<>> =>
          /\ Timeline(state) = Timeline(log[1].before)
          /\ Len(state.past) = Len(log[1].before.past) + 1
          /\ Len(state.past) + Len(state.future)
                = Len(log[1].before.past) + Len(log[1].before.future)

\* present moved twice inside a timeline of three or more snapshots and is
\* away from both of its ends
C22_Witness ==
    /\ LastTwoWere({UNDO}, {UNDO, REDO})
    /\ log[2].before.past # <<>>
    /\ ~IsStale(log[1].before, log[1].action)
    /\ Len(Timeline(state)) >= 3
    /\ state.past # <<>> /\ state.future # <<>>

\* C23: after n actions other than UNDO and REDO from the initial History
\* |past| = n; n UNDOs then lead to the initial snapshot with past empty and
\* |future| = n, and n REDOs after them lead back to the present from which
\* the first UNDO started.
C23_UndoAllRedoAll ==
    undoFree =>
        LET undone == Repeat(state, UNDO, fed)
            redone == Repeat(undone, REDO, fed)
        IN  /\ Len(state.past) = fed
            /\ undone.present = initialState
            /\ undone.past = <<>>
            /\ Len(undone.future) = fed
            /\ redone.present = state.present

\* two or more edits were reduced from the initial History and nothing else
C23_Witness ==
    /\ undoFree
    /\ fed >= 2
    /\ LastTwoWere(Edits, Edits)
    /\ state.present # initialState

====
